---- MODULE Spec2Model ----
(***************************************************************************)
(* The nightly update orchestrator of osm-gimmisn (src/src/cron.rs).       *)
(*                                                                         *)
(* our_main() runs update_stats() and / or seven update_*() functions one   *)
(* after the other; each of the seven loops over get_active_names().       *)
(* update_stats() and the two OSM functions talk to overpass through a     *)
(* bounded retry loop (should_retry) that is gated by overpass_sleep(); the *)
(* reference and derivation functions call into the relation object.       *)
(*                                                                         *)
(* A step of the model is one loop iteration of a reference / derivation   *)
(* function, or, inside a fetch, one interaction with the outside world:   *)
(* a cooldown poll, a sleep, or a query together with the write that       *)
(* persists its answer.  What the remote, the file system and the relation *)
(* object answer is chosen by \E from the outcomes the code distinguishes. *)
(*                                                                         *)
(* Modification times are abstracted to the number of the run in which the *)
(* file was last written; files that predate the first run carry stamp 0.  *)
(***************************************************************************)
EXTENDS Integers, Sequences, FiniteSets, TLC

\* ------------------------------------------------------------------------
\* Bounds of the model (not program constants).

\* Largest number of data lines of an extract that is read line by line.
MaxLines == 3

\* Largest cooldown, in seconds, that the remote reports.
MaxCooldown == 1
\* Cap of the per-operation count of sleeps (the count saturates there).
MaxWaits == 1
\* Number of consecutive runs of our_main() that are followed.
MaxRuns == 2
\* Largest cooldown, in seconds, reported to a timed overpass_sleep() call.
MaxReport == 3
\* Nonzero cooldowns the remote reports in a row before it reports zero.
MaxPolls == 4
\* Longest run that is timed, in seconds: a day, an hour, a minute, a second.
MaxElapsed == 90061
\* Seconds by which the clock may have been set back during a run.
MaxBack == 61

\* ------------------------------------------------------------------------
\* The relation registry used by the tests of cron.rs: gazdagret is an
\* ordinary relation, ujbuda is streets=only, gellerthegy is streets=no.

Registry == <<"gazdagret", "ujbuda", "gellerthegy">>

Relations == {Registry[i] : i \in 1..Len(Registry)}

\* relation.get_config().should_check_missing_streets()
should_check_missing_streets(r) ==
    CASE r = "ujbuda" -> "only"
      [] r = "gellerthegy" -> "no"
      [] OTHER -> "yes"

\* The calls with the street derivation placed before the reference tasks.
Tasks_derive_first ==
    <<"osm_streets", "osm_housenumbers", "missing_streets", "ref_streets",
      "ref_housenumbers", "missing_housenumbers", "additional_streets">>

\* The update_*() calls of our_main(), in call order.
Tasks == <<"osm_streets", "osm_housenumbers", "ref_streets", "ref_housenumbers",
           "missing_streets", "missing_housenumbers", "additional_streets">>

TaskKinds == {Tasks[i] : i \in 1..Len(Tasks)}

\* One target artifact per task kind and relation (get_osm_streets_path(),
\* get_ref_streets_path(), get_streets_percent_path(), ...).
Artifacts == TaskKinds \X Relations

\* Today's whole-country extract, workdir/stats/<today>.csv.
StatsExtract == <<"stats_csv", "hungary">>

\* What the stats phase derives: today's aggregates, the aggregates an
\* earlier day left, the reference total and the cumulative series.
StatsOutputs == {<<"count", "today">>, <<"citycount", "today">>,
                 <<"topusers", "today">>, <<"usercount", "today">>,
                 <<"count", "prior">>, <<"citycount", "prior">>,
                 <<"ref_count", "stats">>, <<"stats_json", "stats">>}

\* Extracts of earlier days, workdir/stats/<day>.csv, named by the time
\* since their last modification.
AgedExtracts == {<<"stats_csv", "aged_6d">>, <<"stats_csv", "aged_7d">>,
                 <<"stats_csv", "aged_8d">>}

\* metadata.modified()?.elapsed()?.as_secs() of a file of the stats
\* directory: today's extract and what is derived today are younger than a
\* day, the aggregates of the prior day were written with their extract.
last_modified(f) ==
    CASE f[2] = "aged_6d" -> 6 * 24 * 3600
      [] f[2] = "aged_7d" -> 7 * 24 * 3600
      [] f[2] = "aged_8d" -> 8 * 24 * 3600
      [] f[2] = "prior" -> 8 * 24 * 3600
      [] OTHER -> 0

\* path.extension() of a file of the stats directory.
extension(f) ==
    CASE f[1] = "stats_csv" -> "csv"
      [] f[1] = "stats_json" -> "json"
      [] f[1] = "ref_count" -> "count"
      [] OTHER -> f[1]

Files == Artifacts \cup {StatsExtract} \cup StatsOutputs \cup AgedExtracts

Absent == [content |-> "absent", mtime |-> 0]

Exists(fs, a) == fs[a].content # "absent"

VARIABLES
    mode,       \* --mode: "all", "stats" or "relations"
    overpass,   \* the overpass flag of update_stats()
    updates,    \* the update flag of each run so far, latest last
    outcomes,   \* what our_main() returned in each finished run
    active,     \* relation -> is_active() after activate_all() and the limits
    config,     \* which reference paths wsgi.ini defines
    files,      \* artifact or extract -> [content, mtime]
    start,      \* files as they were when the current run started
    run,        \* number of the current run
    task,       \* index into Tasks of the update_*() being executed; 0 is
                \* update_stats()
    queue,      \* relations the current function's for loop has yet to visit
    pc,         \* position inside the current loop iteration
    retry,      \* the retry local of the fetch loops
    sleep,      \* the sleep local of overpass_sleep(); -1 before the first poll
    queries,    \* overpass_query() calls made by the current fetch
    waits,      \* sleeps made by the current fetch (saturating)
    visited,    \* loop iterations entered in this run: <<task kind, relation>>
    executed,   \* iterations whose fetch / reference / derivation step ran
    contacted,  \* iterations that sent a poll or a query to the remote
    result,     \* what our_main() returned: "running", "ok" or "err"
    configured, \* relation -> the active flag of its configuration
    scope,      \* relations that match --refcounty / --refsettlement
    first_day_of_month,   \* main(): the run starts on day 1 of a month
    cron_update_inactive, \* wsgi.ini: cron_update_inactive is "True"
    argv,       \* the flags on the command line of main()
    csv,        \* the lines of today's extract, each the list of its cells
    count_file,     \* <today>.count: the number written; -1 before
    citycount_file, \* <today>.citycount: its lines <<key, number>>
    topusers_file,  \* <today>.topusers: its lines <<number, user>>
    usercount_file, \* <today>.usercount: the number written; -1 before
    emitted,    \* "main: finished in ..." lines logged so far
    returned,   \* what main() returned: "none", "ok" or "err"
    now,        \* ctx.get_time().now(), in seconds
    started,    \* the start local of main()
    finished_in,    \* <<hours, minutes, seconds>> of the duration line; <<>> before
    reports,    \* what overpass_query_need_sleep() answered to the
                \* overpass_sleep() call that is timed
    sleeps      \* the arguments of ctx.get_time().sleep() in that call

\* What main() is given: the registry, the filters, the date, the ini file.
environment == <<configured, scope, first_day_of_month, cron_update_inactive, argv>>

\* The extract as update_stats_count() and update_stats_topusers() read it,
\* line by line, and what they write.
aggregates == <<csv, count_file, citycount_file, topusers_file, usercount_file>>

\* What main() gives back: its log line and its return value.
report == <<emitted, returned>>

\* The clock of the context, and what was read from it and asked of it.
clock == <<now, started, finished_in, reports, sleeps>>

vars == <<mode, overpass, updates, outcomes, active, config, files, start, run,
          task, queue, pc, retry, sleep, queries, waits, visited, executed,
          contacted, result, environment, aggregates, report, clock>>

update == updates[Len(updates)]

\* relations.get_active_names()
get_active_names == SelectSeq(Registry, LAMBDA r : active[r])

\* The file the fetch or the loop iteration in progress is about.
Current == IF task = 0 THEN StatsExtract ELSE <<Tasks[task], Head(queue)>>

\* ------------------------------------------------------------------------
\* Decisions taken by the code.

\* should_retry() with the ceiling off by one.
should_retry_off_by_one(k) == k <= 20

\* fn should_retry(retry: i32) -> bool
should_retry(k) == k < 20

\* The skip test with the flag inverted, without the flag, and absent.
SkipExisting_inverted(a) == update /\ Exists(files, a)

SkipExisting_unconditional(a) == Exists(files, a)

SkipExisting_never(a) == FALSE

\* `!update && Path::new(<target path>).exists()`: the iteration is skipped.
SkipExisting(a) == ~update /\ Exists(files, a)

\* The policy tests with the two policy values confused.
SkipHousenumbers_confused(r) == should_check_missing_streets(r) = "no"

SkipStreets_confused(r) == should_check_missing_streets(r) = "only"

\* update_ref_housenumbers() and update_missing_housenumbers():
\* `if streets == "only" { continue; }`
SkipHousenumbers(r) == should_check_missing_streets(r) = "only"

\* update_ref_streets(), update_missing_streets(), update_additional_streets():
\* `if streets == "no" { continue; }`
SkipStreets(r) == should_check_missing_streets(r) = "no"

\* overpass_sleep(): `if sleep == 0 { break; }`, otherwise sleep.
AfterPoll(c) == IF c = 0 THEN "query" ELSE "sleep"

\* overpass_sleep() trusting the reported cooldown: one sleep, then the query.
AfterSleep_trusting == "query"

\* overpass_sleep(): after ctx.get_time().sleep() the loop polls again.
AfterSleep == "poll"

\* An attempt counter that does not advance.
NextRetry_stuck(k) == k

\* `retry += 1`
NextRetry(k) == k + 1

\* ------------------------------------------------------------------------
\* Effects on the artifact tree.

Written(fs, a, what) == [fs EXCEPT ![a] = [content |-> what, mtime |-> run]]

\* A write that fails or persists nothing either never opened the target or
\* left it created / truncated.
FailedWrite(fs, a) == {fs, Written(fs, a, "empty")}

\* ------------------------------------------------------------------------
\* Control flow shared by the loops.

\* `continue` / end of the loop body: on to the next relation.
Continue == /\ pc' = "loop"
            /\ queue' = Tail(queue)

\* An error leaves the update_*() function and our_main() through `?`.
Propagate == /\ pc' = "done"
             /\ result' = "err"
             /\ queue' = queue

\* The locals of a fetch are dropped.
Unwind == /\ retry' = 0
          /\ sleep' = -1
          /\ queries' = 0

\* The head of `while should_retry(retry)`, reached with retry = k: either
\* the next attempt starts (retry += 1; overpass_sleep()) or the loop ends
\* without a `break` and the relation is left behind.
WhileShouldRetry(k) ==
    IF should_retry(k)
      THEN /\ retry' = NextRetry(k)
           /\ sleep' = -1
           /\ pc' = "poll"
           /\ queue' = queue
      ELSE /\ retry' = k
           /\ sleep' = sleep
           /\ pc' = "abandoned"
           /\ queue' = queue

\* The body of the for loop of update_osm_streets() / update_osm_housenumbers()
\* up to the first attempt.
FetchIteration(kind) ==
    /\ pc = "loop"
    /\ Tasks[task] = kind
    /\ queue # <<>>
    /\ visited' = visited \cup {Current}
    /\ IF SkipExisting(Current)
         THEN /\ Continue
              /\ UNCHANGED <<retry, sleep, queries, waits, executed>>
         ELSE /\ executed' = executed \cup {Current}
              /\ queries' = 0
              /\ waits' = 0
              /\ WhileShouldRetry(0)
    /\ UNCHANGED <<environment, clock, aggregates, report, mode, overpass, updates, outcomes, active, config, files, start, run, task, contacted, result>>

update_osm_streets == FetchIteration("osm_streets")

update_osm_housenumbers == FetchIteration("osm_housenumbers")

\* overpass_sleep(): one overpass_query_need_sleep() poll.
OverpassSleepPoll ==
    /\ pc = "poll"
    /\ \E c \in 0..MaxCooldown :
         /\ sleep' = c
         /\ pc' = AfterPoll(c)
    /\ contacted' = contacted \cup {Current}
    /\ UNCHANGED <<environment, clock, aggregates, report, mode, overpass, updates, outcomes, active, config, files, start, run, task, queue, retry,
                   queries, waits, visited, executed, result>>

\* A sleep that is charged to the attempt budget.
OverpassSleepWait_counting ==
    /\ pc = "sleep"
    /\ waits' = IF waits < MaxWaits THEN waits + 1 ELSE waits
    /\ retry' = IF should_retry(retry) THEN retry + 1 ELSE retry
    /\ pc' = "poll"
    /\ UNCHANGED <<environment, clock, aggregates, report, mode, overpass, updates, outcomes, active, config, files, start, run, task, queue,
                   sleep, queries, visited, executed, contacted, result>>

\* overpass_sleep(): ctx.get_time().sleep(sleep).
OverpassSleepWait ==
    /\ pc = "sleep"
    /\ waits' = IF waits < MaxWaits THEN waits + 1 ELSE waits
    /\ pc' = AfterSleep
    /\ UNCHANGED <<environment, clock, aggregates, report, mode, overpass, updates, outcomes, active, config, files, start, run, task, queue, retry,
                   sleep, queries, visited, executed, contacted, result>>

\* An attempt that goes on to the next one after its write succeeded.
OverpassQuery_no_break ==
    /\ pc = "query"
    /\ task > 0
    /\ queries' = queries + 1
    /\ contacted' = contacted \cup {Current}
    /\ files' = Written(files, Current, "data")
    /\ WhileShouldRetry(retry)
    /\ UNCHANGED <<environment, clock, aggregates, report, mode, overpass, updates, outcomes,
                   active, config, start, run, task, waits, visited, executed, result>>

\* The rest of one attempt: build the query, send it, persist the answer.
OverpassQuery ==
    /\ pc = "query"
    /\ task > 0
    /\ \E outcome \in {"query_error", "http_error", "short_write", "write_error", "ok"} :
         CASE outcome = "query_error" ->
                \* relation.get_osm_*_query()? failed: nothing was sent.
                /\ Propagate
                /\ Unwind
                /\ UNCHANGED <<files, contacted>>
           [] outcome = "http_error" ->
                /\ queries' = queries + 1
                /\ contacted' = contacted \cup {Current}
                /\ WhileShouldRetry(retry)
                /\ UNCHANGED <<files, result>>
           [] outcome = "short_write" ->
                /\ queries' = queries + 1
                /\ contacted' = contacted \cup {Current}
                /\ files' \in FailedWrite(files, Current)
                /\ WhileShouldRetry(retry)
                /\ UNCHANGED result
           [] outcome = "write_error" ->
                /\ contacted' = contacted \cup {Current}
                /\ files' \in FailedWrite(files, Current)
                /\ Propagate
                /\ Unwind
           [] outcome = "ok" ->
                /\ queries' = queries + 1
                /\ contacted' = contacted \cup {Current}
                \* `break`
                /\ files' = Written(files, Current, "data")
                /\ pc' = "fetched"
                /\ UNCHANGED <<queue, retry, sleep, result>>
    /\ waits' = IF pc' = "done" THEN 0 ELSE waits
    /\ UNCHANGED <<environment, clock, aggregates, report, mode, overpass, updates, outcomes, active, config, start, run, task, visited, executed>>

\* The fetch loop is over, by `break` or by exhaustion: in a relation loop
\* the "end" log line, and the for loop moves on; in update_stats() the
\* aggregation follows.  retry and the other locals go out of scope.
FetchEnd ==
    /\ pc \in {"fetched", "abandoned"}
    /\ IF task = 0
         THEN pc' = "aggregate" /\ queue' = queue
         ELSE Continue
    /\ Unwind
    /\ waits' = 0
    /\ UNCHANGED <<environment, clock, aggregates, report, mode, overpass, updates, outcomes, active, config, files, start, run, task, visited,
                   executed, contacted, result>>

\* update_stats() up to the first attempt: the query text is read and the
\* stats directory created, either of which may fail; then the extract is
\* fetched if the overpass flag is set, whether or not today's extract exists.
update_stats ==
    /\ pc = "stats"
    /\ visited' = visited \cup {StatsExtract}
    /\ \E ok \in BOOLEAN :
         IF ~ok
           THEN \* util::get_content()? / std::fs::create_dir_all()?
                /\ Propagate
                /\ UNCHANGED <<retry, sleep, queries, waits, executed>>
           ELSE IF overpass
           THEN /\ executed' = executed \cup {StatsExtract}
                /\ queries' = 0
                /\ waits' = 0
                /\ WhileShouldRetry(0)
                /\ UNCHANGED result
           ELSE /\ pc' = "aggregate"
                /\ UNCHANGED <<queue, retry, sleep, queries, waits, executed, result>>
    /\ UNCHANGED <<environment, clock, aggregates, report, mode, overpass, updates, outcomes, active, config, files, start,
                   run, task, contacted>>

\* The rest of one attempt of update_stats(): send the query, open today's
\* extract for writing and write the response.
StatsOverpassQuery ==
    /\ pc = "query"
    /\ task = 0
    /\ queries' = queries + 1
    /\ contacted' = contacted \cup {StatsExtract}
    /\ \E outcome \in {"http_error", "write_error", "ok"} :
         CASE outcome = "http_error" ->
                /\ WhileShouldRetry(retry)
                /\ waits' = waits
                /\ UNCHANGED <<files, result>>
           [] outcome = "write_error" ->
                \* open_write()? or write_all()?
                /\ files' \in FailedWrite(files, StatsExtract)
                /\ Propagate
                /\ retry' = 0
                /\ sleep' = -1
                /\ waits' = 0
           [] outcome = "ok" ->
                \* `break`; what overpass answered, data, an XML error
                \* page or nothing at all, is written as it is.
                /\ \E response \in {"data", "xml", "empty"} :
                     files' = Written(files, StatsExtract, response)
                /\ pc' = "fetched"
                /\ UNCHANGED <<queue, retry, sleep, waits, result>>
    /\ UNCHANGED <<environment, clock, aggregates, report, mode, overpass, updates, outcomes, active, config, start, run,
                   task, visited, executed>>

\* The frame of the steps of update_stats() that follow the fetch.
StatsStep ==
    UNCHANGED <<environment, clock, aggregates, report, mode, overpass, updates, outcomes, active,
                config, start, run, retry, sleep, queries, waits, visited,
                executed, contacted>>

\* What update_stats_count() collects from an extract: the data lines after
\* the header, or nothing, because the file is empty or because the loop is
\* left (`break`) at a first line that starts with "<?xml".
CountedLines(content) == IF content = "data" THEN "data" ELSE "zero"

\* The same without the test that the extract exists: a missing extract
\* counts as an empty one.
update_stats_count_creating ==
    /\ pc = "aggregate"
    /\ StatsStep
    /\ LET lines == CountedLines(files[StatsExtract].content) IN
         files' = Written(Written(files, <<"count", "today">>, lines),
                          <<"citycount", "today">>, lines)
    /\ pc' = "topusers"
    /\ UNCHANGED <<task, queue, result>>

\* update_stats_count(): today's .count and .citycount.
update_stats_count ==
    /\ pc = "aggregate"
    /\ StatsStep
    /\ IF ~Exists(files, StatsExtract)
         THEN \* `return Ok(())`
              /\ pc' = "topusers"
              /\ UNCHANGED <<files, task, queue, result>>
         ELSE \E outcome \in {"read_error", "write_error", "ok"} :
              CASE outcome = "read_error" ->
                     \* get_valid_settlements()? / open_read()? / line?
                     /\ Propagate
                     /\ UNCHANGED <<files, task>>
                [] outcome = "write_error" ->
                     \* write_count_path()?
                     /\ files' \in FailedWrite(files, <<"count", "today">>)
                     /\ Propagate
                     /\ UNCHANGED task
                [] outcome = "ok" ->
                     LET lines == CountedLines(files[StatsExtract].content) IN
                     \* write_count_path(); write_city_count_path()
                     /\ files' = Written(Written(files, <<"count", "today">>, lines),
                                         <<"citycount", "today">>, lines)
                     /\ pc' = "topusers"
                     /\ UNCHANGED <<task, queue, result>>

\* What update_stats_topusers() counts: the last column of every line of the
\* extract, whatever the line is.
RankedLines(content) ==
    CASE content = "data" -> "data"
      [] content = "xml" -> "xml"
      [] OTHER -> "zero"

\* update_stats_topusers(): today's .topusers and .usercount.
update_stats_topusers ==
    /\ pc = "topusers"
    /\ StatsStep
    /\ IF ~Exists(files, StatsExtract)
         THEN \* `return Ok(())`
              /\ pc' = "refcount"
              /\ UNCHANGED <<files, task, queue, result>>
         ELSE \E ok \in BOOLEAN :
              IF ok
                THEN LET lines == RankedLines(files[StatsExtract].content) IN
                     /\ files' = Written(Written(files, <<"topusers", "today">>, lines),
                                         <<"usercount", "today">>, lines)
                     /\ pc' = "refcount"
                     /\ UNCHANGED <<task, queue, result>>
                ELSE \* open_read()? / open_write()? / write_all()?
                     /\ files' \in FailedWrite(files, <<"topusers", "today">>)
                     /\ Propagate
                     /\ UNCHANGED task

\* update_stats_refcount(): ref.count, from the reference city counts.
update_stats_refcount ==
    /\ pc = "refcount"
    /\ StatsStep
    /\ IF ~config.reference_citycounts
         THEN \* get_reference_citycounts_path()?
              /\ Propagate
              /\ UNCHANGED <<files, task>>
         ELSE \E outcome \in {"read_error", "write_error", "ok"} :
              CASE outcome = "read_error" ->
                     \* open_read()? / result? / parse()?
                     /\ Propagate
                     /\ UNCHANGED <<files, task>>
                [] outcome = "write_error" ->
                     /\ files' \in FailedWrite(files, <<"ref_count", "stats">>)
                     /\ Propagate
                     /\ UNCHANGED task
                [] outcome = "ok" ->
                     /\ files' = Written(files, <<"ref_count", "stats">>, "data")
                     /\ pc' = "prune"
                     /\ UNCHANGED <<task, queue, result>>

\* The files of the stats directory.
StatsFiles == StatsOutputs \cup {StatsExtract} \cup AgedExtracts

\* The retention test with the comparison the other way round.
Expired_keeping_old(fs, f) ==
    /\ Exists(fs, f)
    /\ extension(f) = "csv"
    /\ last_modified(f) < 24 * 3600 * 7

\* The retention test without the test of the extension.
Expired_any_extension(fs, f) ==
    /\ Exists(fs, f)
    /\ last_modified(f) >= 24 * 3600 * 7

\* `path.extension() == "csv"` and
\* `last_modified >= 24 * 3600 * 7 && metadata.is_file()`
Expired(fs, f) ==
    /\ Exists(fs, f)
    /\ extension(f) = "csv"
    /\ last_modified(f) >= 24 * 3600 * 7

\* std::fs::remove_file() on each file of the set.
Removed(fs, gone) == [f \in Files |-> IF f \in gone THEN Absent ELSE fs[f]]

\* update_stats(): the loop over the stats directory that removes the old
\* extracts.  read_dir(), metadata() or remove_file() may fail, with some of
\* the old extracts already removed.
update_stats_retention ==
    /\ pc = "prune"
    /\ StatsStep
    /\ LET old == {f \in StatsFiles : Expired(files, f)} IN
       \E ok \in BOOLEAN :
         IF ok
           THEN /\ files' = Removed(files, old)
                /\ pc' = "json"
                /\ UNCHANGED <<task, queue, result>>
           ELSE /\ \E gone \in SUBSET old : files' = Removed(files, gone)
                /\ Propagate
                /\ UNCHANGED task

\* The end of update_stats(): stats.json is generated, which may fail.  When
\* update_stats() returns Ok(()), our_main() goes on with the relations
\* phase in mode "all".
update_stats_aggregate ==
    /\ pc = "json"
    /\ StatsStep
    /\ \E ok \in BOOLEAN :
         IF ~ok
           THEN \* stats::generate_json()?
                /\ files' \in FailedWrite(files, <<"stats_json", "stats">>)
                /\ Propagate
                /\ UNCHANGED task
           ELSE /\ files' = Written(files, <<"stats_json", "stats">>, "data")
                /\ result' = result
                /\ IF mode = "all"
                     THEN task' = 1 /\ queue' = get_active_names /\ pc' = "loop"
                     ELSE task' = task /\ queue' = queue /\ pc' = "epilogue"

\* Common frame of the reference and derivation iterations.
LocalIteration(kind) ==
    /\ pc = "loop"
    /\ Tasks[task] = kind
    /\ queue # <<>>
    /\ visited' = visited \cup {Current}
    /\ UNCHANGED <<environment, clock, aggregates, report, mode, overpass, updates, outcomes, active, config, start, run, task, retry, sleep,
                   queries, waits, contacted>>

\* One iteration of the for loop of update_ref_streets().
update_ref_streets ==
    /\ LocalIteration("ref_streets")
    /\ IF SkipExisting(Current)
         THEN Continue /\ UNCHANGED <<files, executed, result>>
         ELSE IF ~config.reference_street
         THEN \* get_reference_street_path()?
              Propagate /\ UNCHANGED <<files, executed>>
         ELSE IF SkipStreets(Head(queue))
         THEN Continue /\ UNCHANGED <<files, executed, result>>
         ELSE /\ executed' = executed \cup {Current}
              /\ \E ok \in BOOLEAN :
                   IF ok
                     THEN /\ files' = Written(files, Current, "data")
                          /\ Continue
                          /\ UNCHANGED result
                     ELSE \* relation.write_ref_streets(&reference)?
                          /\ files' \in FailedWrite(files, Current)
                          /\ Propagate

\* One iteration of the for loop of update_ref_housenumbers().
update_ref_housenumbers ==
    /\ LocalIteration("ref_housenumbers")
    /\ IF SkipExisting(Current)
         THEN Continue /\ UNCHANGED <<files, executed, result>>
         ELSE IF ~config.reference_housenumbers
         THEN \* get_reference_housenumber_paths()?
              Propagate /\ UNCHANGED <<files, executed>>
         ELSE IF SkipHousenumbers(Head(queue))
         THEN Continue /\ UNCHANGED <<files, executed, result>>
         ELSE /\ executed' = executed \cup {Current}
              /\ \E ok \in BOOLEAN :
                   IF ok
                     THEN files' = Written(files, Current, "data")
                     ELSE \* `if let Err(err) = ... { log; continue; }`
                          files' \in FailedWrite(files, Current)
              /\ Continue
              /\ UNCHANGED result

\* One iteration of the for loop of update_missing_streets().
update_missing_streets ==
    /\ LocalIteration("missing_streets")
    /\ IF SkipExisting(Current) \/ SkipStreets(Head(queue))
         THEN Continue /\ UNCHANGED <<files, executed, result>>
         ELSE /\ executed' = executed \cup {Current}
              /\ \E ok \in BOOLEAN :
                   IF ok
                     THEN /\ files' = Written(files, Current, "data")
                          /\ Continue
                          /\ UNCHANGED result
                     ELSE \* relation.write_missing_streets()?
                          /\ files' \in FailedWrite(files, Current)
                          /\ Propagate

\* One iteration of the for loop of update_missing_housenumbers().
update_missing_housenumbers ==
    /\ LocalIteration("missing_housenumbers")
    /\ IF SkipExisting(Current) \/ SkipHousenumbers(Head(queue))
         THEN Continue /\ UNCHANGED <<files, executed, result>>
         ELSE /\ executed' = executed \cup {Current}
              /\ \E outcome \in {"ok", "write_error", "cache_error"} :
                   CASE outcome = "ok" ->
                          /\ files' = Written(files, Current, "data")
                          /\ Continue
                          /\ UNCHANGED result
                     [] outcome = "write_error" ->
                          \* relation.write_missing_housenumbers()?
                          /\ files' \in FailedWrite(files, Current)
                          /\ Propagate
                     [] outcome = "cache_error" ->
                          \* i18n::set_language()? / cache::get_missing_housenumbers_*()?
                          /\ files' = Written(files, Current, "data")
                          /\ Propagate

\* One iteration of the for loop of update_additional_streets().
update_additional_streets ==
    /\ LocalIteration("additional_streets")
    /\ IF SkipExisting(Current) \/ SkipStreets(Head(queue))
         THEN Continue /\ UNCHANGED <<files, executed, result>>
         ELSE /\ executed' = executed \cup {Current}
              /\ \E ok \in BOOLEAN :
                   IF ok
                     THEN /\ files' = Written(files, Current, "data")
                          /\ Continue
                          /\ UNCHANGED result
                     ELSE \* relation.write_additional_streets()?
                          /\ files' \in FailedWrite(files, Current)
                          /\ Propagate

\* ReturnOk with the next update_*() given the relations last to first.
ReturnOk_reversed ==
    /\ pc = "loop"
    /\ queue = <<>>
    /\ task' = task + 1
    /\ IF task < Len(Tasks)
         THEN /\ queue' = [i \in 1..Len(get_active_names) |->
                              get_active_names[Len(get_active_names) + 1 - i]]
              /\ pc' = "loop"
         ELSE queue' = queue /\ pc' = "epilogue"
    /\ UNCHANGED <<environment, clock, aggregates, report, mode, overpass, updates, outcomes, active,
                   config, files, start, run, retry, sleep, queries, waits,
                   visited, executed, contacted, result>>

\* The for loop of an update_*() function is exhausted: it returns Ok(()) and
\* our_main() calls the next one, which asks for get_active_names() again.
ReturnOk ==
    /\ pc = "loop"
    /\ queue = <<>>
    /\ task' = task + 1
    /\ IF task < Len(Tasks)
         THEN queue' = get_active_names /\ pc' = "loop"
         ELSE queue' = queue /\ pc' = "epilogue"
    /\ UNCHANGED <<environment, clock, aggregates, report, mode, overpass, updates, outcomes, active, config, files, start, run, retry, sleep,
                   queries, waits, visited, executed, contacted, result>>

\* our_main() after the phases: the VmPeak log line, then the injected fault
\* of ctx.get_unit().make_error(), if any.
Epilogue ==
    /\ pc = "epilogue"
    /\ pc' = "done"
    /\ result' \in {"ok", "err"}
    /\ UNCHANGED <<environment, clock, aggregates, report, mode, overpass, updates, outcomes, active, config, files, start, run, task, queue, retry,
                   sleep, queries, waits, visited, executed, contacted>>

\* our_main() on entry: the stats phase comes first if the mode asks for it.
FirstTask == IF mode \in {"all", "stats"} THEN 0 ELSE 1

FirstQueue == IF mode \in {"all", "stats"} THEN <<>> ELSE get_active_names

FirstPc == IF mode \in {"all", "stats"} THEN "stats" ELSE "loop"

\* The next nightly run: our_main() is entered again, with update = u, on the
\* artifact tree the previous run left behind.
NextRun(u) ==
    /\ pc = "done"
    /\ run < MaxRuns
    /\ run' = run + 1
    /\ updates' = Append(updates, u)
    /\ outcomes' = Append(outcomes, result)
    /\ start' = files
    /\ task' = FirstTask
    /\ queue' = FirstQueue
    /\ pc' = FirstPc
    /\ retry' = 0
    /\ sleep' = -1
    /\ queries' = 0
    /\ waits' = 0
    /\ visited' = {}
    /\ executed' = {}
    /\ contacted' = {}
    /\ result' = "running"
    /\ UNCHANGED <<environment, clock, aggregates, report, mode, overpass, active, config, files>>

\* The iteration or attempt in progress is about to write its target: a
\* query is due, or a reference / derivation iteration that neither the
\* exists test nor the policy will skip.
AboutToWrite ==
    \/ pc = "query"
    \/ /\ pc = "loop"
       /\ queue # <<>>
       /\ Tasks[task] \notin {"osm_streets", "osm_housenumbers"}
       /\ ~SkipExisting(Current)
       /\ IF Tasks[task] \in {"ref_housenumbers", "missing_housenumbers"}
            THEN ~SkipHousenumbers(Head(queue))
            ELSE ~SkipStreets(Head(queue))

\* The process is stopped in the middle of a run (killed, power cut): the
\* run is over without our_main() returning, and if a write was under way
\* its target may be left opened and partially written.
Interrupt ==
    /\ pc \in {"loop", "poll", "sleep", "query", "fetched", "abandoned", "epilogue"}
    /\ run < MaxRuns
    /\ pc' = "done"
    /\ result' = "killed"
    /\ \/ files' = files
       \/ AboutToWrite /\ files' = Written(files, Current, "partial")
    /\ Unwind
    /\ waits' = 0
    /\ UNCHANGED <<environment, clock, aggregates, report, mode, overpass, updates, outcomes, active,
                   config, start, run, task, queue, visited, executed, contacted>>

\* ------------------------------------------------------------------------
\* main(): the command line interface around our_main().

\* The argument of activate_all() without the date.
ActivateAll_ignoring_date == cron_update_inactive

\* `ctx.get_ini().get_cron_update_inactive() || first_day_of_month`
ActivateAll == cron_update_inactive \/ first_day_of_month

\* relations.get_active_names() once activate_all(all) and the two limit_to_*()
\* calls have been made: the relations in scope that are configured active,
\* or all relations in scope.
ActiveNames(all) == [r \in Relations |-> r \in scope /\ (all \/ configured[r])]

\* The flags main() knows.
Flags == {"no-update", "no-overpass"}

\* The update flag read as "refresh when --no-update is given".
UpdateFlag_forcing(args) == "no-update" \in args

\* `let update = !args.is_present("no-update");`
UpdateFlag(args) == "no-update" \notin args

\* The overpass flag with --no-overpass ignored.
OverpassFlag_ignoring(args) == TRUE

\* `let overpass = !args.is_present("no-overpass");`
OverpassFlag(args) == "no-overpass" \notin args

\* main() up to the call of our_main(): the registry is loaded, the command
\* line parsed, the activation override and the scope filters applied, the
\* two flags turned into the arguments of our_main(); the loading, the
\* parsing and the filters may fail, and main() then returns the error at
\* once.
main ==
    /\ pc = "main"
    /\ \E ok \in BOOLEAN :
         IF ok
           THEN /\ active' = ActiveNames(ActivateAll)
                /\ updates' = <<UpdateFlag(argv)>>
                /\ overpass' = OverpassFlag(argv)
                /\ started' = now
                /\ pc' = "our_main"
                /\ UNCHANGED returned
           ELSE \* Relations::new()? / get_matches_from_safe()? / limit_to_*()?
                /\ pc' = "exit"
                /\ returned' = "err"
                /\ UNCHANGED <<active, updates, overpass, started>>
    /\ UNCHANGED <<environment, now, finished_in, reports, sleeps, aggregates, emitted, mode, outcomes, config,
                   files, start, run, task, queue, retry, sleep, queries, waits,
                   visited, executed, contacted, result>>

\* our_main() is entered from main().
our_main ==
    /\ pc = "our_main"
    /\ task' = FirstTask
    /\ queue' = FirstQueue
    /\ pc' = FirstPc
    /\ UNCHANGED <<environment, clock, aggregates, report, mode, overpass, updates, outcomes, active,
                   config, files, start, run, retry, sleep, queries, waits,
                   visited, executed, contacted, result>>

\* Integer division and remainder as Rust computes them on i64: the
\* quotient is truncated towards zero, the remainder has the sign of the
\* dividend.
Quot(a, b) == IF a >= 0 THEN a \div b ELSE -((-a) \div b)

Rem(a, b) == a - b * Quot(a, b)

\* chrono::Duration::seconds(d).num_minutes() and .num_hours()
num_minutes(d) == Quot(d, 60)

num_hours(d) == Quot(d, 3600)

\* The minutes of the duration line without `% 60`.
Minutes_unwrapped(d) == num_minutes(d)

\* `duration.num_minutes() % 60`
Minutes(d) == Rem(num_minutes(d), 60)

\* `duration.num_seconds() % 60`
Seconds(d) == Rem(d, 60)

\* The decimal digits of a natural number, as `{}` prints them.
RECURSIVE Digits(_)
Digits(n) == IF n < 10 THEN <<n>> ELSE Append(Digits(n \div 10), n % 10)

\* `{}` of an i64: a minus sign if it is negative, and its digits.
Display(n) == [minus |-> n < 0, digits |-> Digits(IF n < 0 THEN -n ELSE n)]

\* `{:0>2}`: the text is filled with zeros on the left up to two characters.
Pad2(text) ==
    IF ~text.minus /\ Len(text.digits) < 2
      THEN [text EXCEPT !.digits = <<0>> \o text.digits]
      ELSE text

\* "main: finished in {}:{:0>2}:{:0>2}": the three fields of the line.
FinishedIn(d) ==
    <<Display(num_hours(d)), Pad2(Display(Minutes(d))), Pad2(Display(Seconds(d)))>>

main_finish_propagating ==
    /\ pc = "done"
    /\ pc' = "exit"
    /\ IF result = "err"
         THEN returned' = "err" /\ emitted' = emitted /\ finished_in' = finished_in
         ELSE returned' = "ok" /\ emitted' = emitted + 1
              /\ finished_in' = FinishedIn(now - started)
    /\ UNCHANGED <<environment, now, started, reports, sleeps, aggregates, mode, overpass, updates, outcomes, active, config,
                   files, start, run, task, queue, retry, sleep, queries, waits,
                   visited, executed, contacted, result>>

\* The rest of main(): an error of our_main() is logged ("main: unhandled
\* error"), the duration line is logged, and main() returns Ok(()).
main_finish ==
    /\ pc = "done"
    /\ pc' = "exit"
    /\ emitted' = emitted + 1
    /\ finished_in' = FinishedIn(now - started)
    /\ returned' = "ok"
    /\ UNCHANGED <<environment, now, started, reports, sleeps, aggregates, mode, overpass, updates, outcomes, active, config,
                   files, start, run, task, queue, retry, sleep, queries, waits,
                   visited, executed, contacted, result>>

\* ------------------------------------------------------------------------
\* The aggregation of one extract, line by line.  A line is the list of the
\* cells that `line.split('\t')` gives.

\* The header line of the extract.
Header == <<"addr:postcode", "addr:city", "addr:street", "addr:housenumber", "@user">>

\* A first line of an answer that is not CSV.
XmlLine == <<"<?xml version=1.0 encoding=UTF-8?>">>

\* `line.starts_with("<?xml")`
starts_with_xml(line) == line = XmlLine

\* The data lines the extracts are made of: postcode, city, street,
\* housenumber, user.
Rows ==
    {<<"1111", "Budapest", "Fo utca", "1", "alice">>,
     <<"1111", "Budapest", "Fo utca", "1", "bob">>,
     <<"1111", "budapest", "Fo utca", "1", "alice">>,
     <<"1112", "Budapest", "Fo utca", "2", "bob">>,
     <<"2030", "Erd", "Fo utca", "1", "carol">>,
     <<"8420", "Zirc", "Fo utca", "1", "alice">>}

\* util::get_city_key(): the settlement the postcode and the city name
\* stand for, or the city name as it is when the lookup knows none.
get_city_key(postcode, city) ==
    CASE city \in {"Budapest", "budapest"} -> "budapest"
      [] city = "Erd" -> "erd"
      [] OTHER -> city

\* util::get_sort_key(): the place of a key in the collation.
get_sort_key(key) ==
    CASE key = "budapest" -> 1
      [] key = "erd" -> 2
      [] key = "Zirc" -> 3
      [] OTHER -> 4

\* The enumerations of a finite set, i.e. the orders in which a HashMap or
\* HashSet may be iterated.
Enumerations(S) ==
    {seq \in [1..Cardinality(S) -> S] : \A i, j \in 1..Cardinality(S) : seq[i] = seq[j] => i = j}

\* The loop of update_stats_count() with the whole line as the identity of
\* a house number.
RECURSIVE CountLoop_with_user(_, _, _, _)
CountLoop_with_user(lines, first, house_numbers, cities) ==
    IF lines = <<>> \/ starts_with_xml(Head(lines))
      THEN [house_numbers |-> house_numbers, cities |-> cities]
      ELSE IF first
      THEN CountLoop_with_user(Tail(lines), FALSE, house_numbers, cities)
      ELSE LET cells == Head(lines)
               city_key == get_city_key(cells[1], cells[2])
               city_value == SubSeq(cells, 3, 4)
           IN CountLoop_with_user(Tail(lines), FALSE,
                                  house_numbers \cup {cells},
                                  cities \cup {<<city_key, city_value>>})

\* The loop of update_stats_count() with the editor kept in the value that
\* is counted per city.
RECURSIVE CountLoop_city_with_user(_, _, _, _)
CountLoop_city_with_user(lines, first, house_numbers, cities) ==
    IF lines = <<>> \/ starts_with_xml(Head(lines))
      THEN [house_numbers |-> house_numbers, cities |-> cities]
      ELSE IF first
      THEN CountLoop_city_with_user(Tail(lines), FALSE, house_numbers, cities)
      ELSE LET cells == Head(lines)
               city_key == get_city_key(cells[1], cells[2])
               city_value == SubSeq(cells, 3, 5)
           IN CountLoop_city_with_user(Tail(lines), FALSE,
                                       house_numbers \cup {SubSeq(cells, 1, 4)},
                                       cities \cup {<<city_key, city_value>>})

\* The loop of update_stats_count() over the lines: a line that starts with
\* the XML marker ends the loop, the first line is skipped as the header,
\* and every other line adds its first four cells to house_numbers and its
\* street and housenumber to the set of its city key.  The sets are given
\* as house_numbers and as pairs <<city key, city value>>.
RECURSIVE CountLoop(_, _, _, _)
CountLoop(lines, first, house_numbers, cities) ==
    IF lines = <<>> \/ starts_with_xml(Head(lines))
      THEN [house_numbers |-> house_numbers, cities |-> cities]
      ELSE IF first
      THEN CountLoop(Tail(lines), FALSE, house_numbers, cities)
      ELSE LET cells == Head(lines)
               city_key == get_city_key(cells[1], cells[2])
               city_value == SubSeq(cells, 3, 4)
           IN CountLoop(Tail(lines), FALSE,
                        house_numbers \cup {SubSeq(cells, 1, 4)},
                        cities \cup {<<city_key, city_value>>})

\* write_city_count_path() without the sort: the keys in the order of the
\* map.
write_city_count_path_unsorted(cities) ==
    LET keys == {c[1] : c \in cities}
        line(key) == <<key, Cardinality({c \in cities : c[1] = key})>>
    IN {[i \in 1..Cardinality(keys) |-> line(order[i])] : order \in Enumerations(keys)}

\* write_count_path(): `house_numbers.len().to_string()`
write_count_path(house_numbers) == Cardinality(house_numbers)

\* The lines write_city_count_path() may write: one `key \t value.len()` per
\* key of the map, the keys sorted by get_sort_key().
write_city_count_path(cities) ==
    LET keys == {c[1] : c \in cities}
        line(key) == <<key, Cardinality({c \in cities : c[1] = key})>>
    IN {[i \in 1..Cardinality(keys) |-> line(order[i])] :
          order \in {seq \in Enumerations(keys) :
                       \A i, j \in 1..Cardinality(keys) :
                           i < j => get_sort_key(seq[i]) <= get_sort_key(seq[j])}}

\* update_stats_count() on the lines of the extract.
CountExtract ==
    /\ pc = "count_lines"
    /\ LET counted == CountLoop(csv, TRUE, {}, {}) IN
         /\ count_file' = write_count_path(counted.house_numbers)
         /\ citycount_file' \in write_city_count_path(counted.cities)
    /\ pc' = "rank_users"
    /\ UNCHANGED <<environment, clock, report, csv, topusers_file, usercount_file, mode,
                   overpass, updates, outcomes, active, config, files, start,
                   run, task, queue, retry, sleep, queries, waits, visited,
                   executed, contacted, result>>

\* The first loop of update_stats_topusers(): every line of the extract
\* adds one to the entry of its last cell.
RECURSIVE UsersLoop(_, _)
UsersLoop(lines, users) ==
    IF lines = <<>>
      THEN users
      ELSE LET cells == Head(lines)
               user == cells[Len(cells)]
           IN UsersLoop(Tail(lines),
                [u \in DOMAIN users \cup {user} |->
                   IF u \in DOMAIN users
                     THEN (IF u = user THEN users[u] + 1 ELSE users[u])
                     ELSE 1])

\* The number of lines of <today>.topusers.
TopUsers == 20

\* The lines of <today>.topusers without the sort: the entries of the map in
\* the order of its iteration.
TopLines_unsorted(users) ==
    LET n == Cardinality(DOMAIN users)
        kept == IF n < TopUsers THEN n ELSE TopUsers
    IN {[i \in 1..kept |-> <<users[order[i]], order[i]>>] :
          order \in Enumerations(DOMAIN users)}

\* The lines update_stats_topusers() may write to <today>.topusers: the
\* entries of the map in some order, sorted (stably) by descending count,
\* cut after the first 20, one `count user` each.
TopLines(users) ==
    LET n == Cardinality(DOMAIN users)
        kept == IF n < TopUsers THEN n ELSE TopUsers
    IN {[i \in 1..kept |-> <<users[order[i]], order[i]>>] :
          order \in {seq \in Enumerations(DOMAIN users) :
                       \A i, j \in 1..n : i < j => users[seq[i]] >= users[seq[j]]}}

\* update_stats_topusers() on the lines of the extract; the number written
\* to <today>.usercount is the size of the map.
RankUsers ==
    /\ pc = "rank_users"
    /\ LET users == UsersLoop(csv, <<>>) IN
         /\ topusers_file' \in TopLines(users)
         /\ usercount_file' = Cardinality(DOMAIN users)
    /\ pc' = "aggregated"
    /\ UNCHANGED <<environment, clock, report, csv, count_file, citycount_file, mode,
                   overpass, updates, outcomes, active, config, files, start,
                   run, task, queue, retry, sleep, queries, waits, visited,
                   executed, contacted, result>>

\* ------------------------------------------------------------------------
\* overpass_sleep() called on its own, as its tests do, with the time counted.

\* A sleep of one second whatever was reported.
SleepSeconds_fixed(c) == 1

\* `sleep as u64`, for a cooldown that is not negative.
SleepSeconds(c) == c

\* TestTime::get_sleep(): the seconds slept so far.
RECURSIVE Sum(_)
Sum(seq) == IF seq = <<>> THEN 0 ELSE Head(seq) + Sum(Tail(seq))

\* One iteration of the loop of overpass_sleep(): ask for the cooldown, and
\* return if it is zero, sleep that long and ask again if it is not.
overpass_sleep ==
    /\ pc = "overpass_sleep"
    /\ \E c \in 0..MaxReport :
         /\ c = 0 \/ Len(sleeps) < MaxPolls
         /\ reports' = Append(reports, c)
         /\ IF c = 0
              THEN \* `break`
                   /\ pc' = "awake"
                   /\ sleeps' = sleeps
              ELSE /\ pc' = pc
                   /\ sleeps' = Append(sleeps, SleepSeconds(c))
    /\ UNCHANGED <<environment, aggregates, report, now, started, finished_in,
                   mode, overpass, updates, outcomes, active, config, files,
                   start, run, task, queue, retry, sleep, queries, waits,
                   visited, executed, contacted, result>>

\* ------------------------------------------------------------------------
\* Initial states: the flags of the first run, the activity of the
\* relations, the configuration, and the artifacts left by earlier runs.
\* A dormant relation is never looked at, so one artifact state stands for
\* all of them.

Present == [content |-> "data", mtime |-> 0]

\* wsgi.ini: which of the reference paths are defined.
ConfigStates == [reference_street : BOOLEAN, reference_housenumbers : BOOLEAN,
                 reference_citycounts : BOOLEAN]

\* A wsgi.ini that defines all of them.
CompleteConfig == [reference_street |-> TRUE, reference_housenumbers |-> TRUE,
                   reference_citycounts |-> TRUE]

\* Artifact trees in which a relation has either all of its artifacts or none;
\* the relations outside S (the dormant ones) have none.
InitialFiles(S) ==
    {[a \in Files |-> IF a[2] \in have THEN Present ELSE Absent] :
        have \in SUBSET S}

\* Activity configurations: every choice of active relations that leaves at
\* least one relation dormant (the tests of cron.rs deactivate all relations
\* but one or two).
ActiveSets == {S \in SUBSET Relations : S # Relations}

\* The state our_main() is entered in, given the flags and the files.
Entered ==
    /\ outcomes = <<>>
    /\ start = files
    /\ run = 1
    /\ task = FirstTask
    /\ queue = FirstQueue
    /\ pc = FirstPc
    /\ retry = 0
    /\ sleep = -1
    /\ queries = 0
    /\ waits = 0
    /\ visited = {}
    /\ executed = {}
    /\ contacted = {}
    /\ result = "running"

\* The lines of the extract are not looked at.
Unread ==
    /\ csv = <<>>
    /\ count_file = -1
    /\ citycount_file = <<>>
    /\ topusers_file = <<>>
    /\ usercount_file = -1

\* The clock of the tests (make_test_time()): now() gives the same instant
\* each time it is asked, and no overpass_sleep() call is timed.
Untimed ==
    /\ now = 0
    /\ started = 0
    /\ finished_in = <<>>
    /\ reports = <<>>
    /\ sleeps = <<>>

\* our_main() called on its own, as the tests and py_our_main() do: the
\* relations object is as configured, and main() is not involved.
CalledDirectly ==
    /\ Unread
    /\ Untimed
    /\ configured = active
    /\ scope = Relations
    /\ first_day_of_month = FALSE
    /\ cron_update_inactive = FALSE
    /\ argv = {}
    /\ emitted = 0
    /\ returned = "none"

\* The relations phase alone (--mode relations, the default of main()).
Init ==
    /\ mode = "relations"
    /\ overpass = TRUE
    /\ updates \in {<<TRUE>>, <<FALSE>>}
    /\ \E S \in ActiveSets :
         /\ active = [r \in Relations |-> r \in S]
         /\ files \in InitialFiles(S)
    /\ config \in {c \in ConfigStates : c.reference_citycounts}
    /\ Entered
    /\ CalledDirectly

Next ==
    \/ update_osm_streets
    \/ update_osm_housenumbers
    \/ OverpassSleepPoll
    \/ OverpassSleepWait
    \/ OverpassQuery
    \/ FetchEnd
    \/ update_ref_streets
    \/ update_ref_housenumbers
    \/ update_missing_streets
    \/ update_missing_housenumbers
    \/ update_additional_streets
    \/ ReturnOk
    \/ Epilogue

\* One run of the relations phase.
Spec == Init /\ [][Next]_vars

\* Consecutive incremental runs of the relations phase, with one relation
\* active and a complete configuration.
InitRerun ==
    /\ Init
    /\ ~update
    /\ Cardinality({r \in Relations : active[r]}) = 1
    /\ config = CompleteConfig

NextRerun == Next \/ NextRun(FALSE)

SpecRerun == InitRerun /\ [][NextRerun]_vars

\* A run of the relations phase that may be interrupted, followed by an
\* incremental run.
NextResume ==
    \/ Interrupt
    \/ NextRerun

SpecResume == InitRerun /\ [][NextResume]_vars

\* One run in any mode, with one relation active and a complete
\* configuration; today's extract may be there from an earlier run.
InitAll ==
    /\ mode \in {"all", "stats", "relations"}
    /\ overpass \in BOOLEAN
    /\ updates \in {<<TRUE>>, <<FALSE>>}
    /\ \E r \in Relations :
         /\ active = [x \in Relations |-> x = r]
         /\ files \in InitialFiles({r, StatsExtract[2]})
    /\ config = CompleteConfig
    /\ Entered
    /\ CalledDirectly

NextAll ==
    \/ update_stats
    \/ StatsOverpassQuery
    \/ update_stats_count
    \/ update_stats_topusers
    \/ update_stats_refcount
    \/ update_stats_retention
    \/ update_stats_aggregate
    \/ Next

SpecAll == InitAll /\ [][NextAll]_vars

\* The stats phase alone (--mode stats): the overpass flag and the reference
\* city counts of the configuration are free, and the stats directory holds
\* any choice of today's extract (data or an XML error page), the extracts
\* of earlier days, the aggregates of the prior day and ref.count.
StatsDirectories ==
    {[f \in Files |->
        IF f = StatsExtract THEN today
        ELSE IF f \in kept THEN Present
        ELSE Absent] :
        today \in {Absent, Present, [content |-> "xml", mtime |-> 0]},
        kept \in SUBSET (AgedExtracts \cup {<<"count", "prior">>, <<"ref_count", "stats">>})}

InitStats ==
    /\ mode = "stats"
    /\ overpass \in BOOLEAN
    /\ updates = <<TRUE>>
    /\ active = [r \in Relations |-> FALSE]
    /\ files \in StatsDirectories
    /\ config \in {c \in ConfigStates : c.reference_street /\ c.reference_housenumbers}
    /\ Entered
    /\ CalledDirectly

NextStats ==
    \/ update_stats
    \/ OverpassSleepPoll
    \/ OverpassSleepWait
    \/ StatsOverpassQuery
    \/ FetchEnd
    \/ update_stats_count
    \/ update_stats_topusers
    \/ update_stats_refcount
    \/ update_stats_retention
    \/ update_stats_aggregate
    \/ Epilogue

SpecStats == InitStats /\ [][NextStats]_vars

\* The extracts that are read line by line: the header followed by up to
\* MaxLines data lines, an empty file, and an XML error page.
Extracts ==
    {<<Header>> \o body : body \in UNION {[1..n -> Rows] : n \in 0..MaxLines}}
        \cup {<<>>, <<XmlLine, <<"<error/>">>>>}

\* update_stats_count() and update_stats_topusers() on today's extract.
InitAggregate ==
    /\ csv \in Extracts
    /\ count_file = -1
    /\ citycount_file = <<>>
    /\ topusers_file = <<>>
    /\ usercount_file = -1
    /\ pc = "count_lines"
    /\ mode = "stats"
    /\ overpass = FALSE
    /\ updates = <<TRUE>>
    /\ active = [r \in Relations |-> FALSE]
    /\ configured = active
    /\ scope = Relations
    /\ first_day_of_month = FALSE
    /\ cron_update_inactive = FALSE
    /\ argv = {}
    /\ files = [f \in Files |-> IF f = StatsExtract THEN Present ELSE Absent]
    /\ config = CompleteConfig
    /\ outcomes = <<>>
    /\ start = files
    /\ run = 1
    /\ task = 0
    /\ queue = <<>>
    /\ retry = 0
    /\ sleep = -1
    /\ queries = 0
    /\ waits = 0
    /\ visited = {}
    /\ executed = {}
    /\ contacted = {}
    /\ result = "running"
    /\ emitted = 0
    /\ returned = "none"
    /\ Untimed

NextAggregate ==
    \/ CountExtract
    \/ RankUsers

SpecAggregate == InitAggregate /\ [][NextAggregate]_vars

\* main() from its start, with a complete configuration, no file from an
\* earlier run (so that --no-update makes no difference) and filters that
\* leave one relation in scope; the mode, --no-overpass, the registry, the
\* date and the ini file are free.
InitMain ==
    /\ mode \in {"all", "stats", "relations"}
    /\ argv \in {{}, {"no-overpass"}}
    /\ overpass = TRUE
    /\ updates = <<TRUE>>
    /\ configured \in [Relations -> BOOLEAN]
    /\ \E r \in Relations : scope = {r}
    /\ first_day_of_month \in BOOLEAN
    /\ cron_update_inactive \in BOOLEAN
    /\ active = configured
    /\ files = [a \in Files |-> Absent]
    /\ config = CompleteConfig
    /\ outcomes = <<>>
    /\ start = files
    /\ run = 1
    /\ task = 0
    /\ queue = <<>>
    /\ pc = "main"
    /\ retry = 0
    /\ sleep = -1
    /\ queries = 0
    /\ waits = 0
    /\ visited = {}
    /\ executed = {}
    /\ contacted = {}
    /\ result = "running"
    /\ Unread
    /\ Untimed
    /\ emitted = 0
    /\ returned = "none"

NextMain ==
    \/ main
    \/ our_main
    \/ main_finish
    \/ NextAll

SpecMain == InitMain /\ [][NextMain]_vars

\* main() from its start with any choice of the two flags, in any mode, on
\* a tree in which the one relation in scope and the stats directory have
\* their files from an earlier run or not; every relation is configured
\* active and the configuration is complete.
InitFlags ==
    /\ mode \in {"all", "stats", "relations"}
    /\ argv \in SUBSET Flags
    /\ overpass = TRUE
    /\ updates = <<TRUE>>
    /\ configured = [r \in Relations |-> TRUE]
    /\ \E r \in Relations :
         /\ scope = {r}
         /\ files \in InitialFiles({r, StatsExtract[2]})
    /\ first_day_of_month = FALSE
    /\ cron_update_inactive = FALSE
    /\ active = configured
    /\ config = CompleteConfig
    /\ outcomes = <<>>
    /\ start = files
    /\ run = 1
    /\ task = 0
    /\ queue = <<>>
    /\ pc = "main"
    /\ retry = 0
    /\ sleep = -1
    /\ queries = 0
    /\ waits = 0
    /\ visited = {}
    /\ executed = {}
    /\ contacted = {}
    /\ result = "running"
    /\ Unread
    /\ Untimed
    /\ emitted = 0
    /\ returned = "none"

SpecFlags == InitFlags /\ [][NextMain]_vars

\* overpass_sleep() on its own: nothing else of the program runs.
InitSleep ==
    /\ pc = "overpass_sleep"
    /\ mode = "relations"
    /\ overpass = TRUE
    /\ updates = <<TRUE>>
    /\ active = [r \in Relations |-> FALSE]
    /\ files = [a \in Files |-> Absent]
    /\ config = CompleteConfig
    /\ outcomes = <<>>
    /\ start = files
    /\ run = 1
    /\ task = 0
    /\ queue = <<>>
    /\ retry = 0
    /\ sleep = -1
    /\ queries = 0
    /\ waits = 0
    /\ visited = {}
    /\ executed = {}
    /\ contacted = {}
    /\ result = "running"
    /\ CalledDirectly

NextSleep == overpass_sleep

SpecSleep == InitSleep /\ [][NextSleep]_vars

\* The end of main() alone: our_main() has returned, after any time up to
\* MaxElapsed on a clock that may have been set back meanwhile.
InitDuration ==
    /\ pc = "done"
    /\ result = "ok"
    /\ mode = "relations"
    /\ overpass = TRUE
    /\ updates = <<TRUE>>
    /\ active = [r \in Relations |-> FALSE]
    /\ files = [a \in Files |-> Absent]
    /\ config = CompleteConfig
    /\ outcomes = <<>>
    /\ start = files
    /\ run = 1
    /\ task = Len(Tasks) + 1
    /\ queue = <<>>
    /\ retry = 0
    /\ sleep = -1
    /\ queries = 0
    /\ waits = 0
    /\ visited = {}
    /\ executed = {}
    /\ contacted = {}
    /\ Unread
    /\ configured = active
    /\ scope = Relations
    /\ first_day_of_month = FALSE
    /\ cron_update_inactive = FALSE
    /\ argv = {}
    /\ emitted = 0
    /\ returned = "none"
    /\ started \in {0, MaxBack}
    /\ now \in 0..MaxElapsed
    /\ finished_in = <<>>
    /\ reports = <<>>
    /\ sleeps = <<>>

NextDuration == main_finish

SpecDuration == InitDuration /\ [][NextDuration]_vars

\* The same, with the scheduling of the program stated: it is sequential and
\* every call it makes returns (a poll is answered, a sleep ends, a query
\* succeeds or fails), so it keeps taking steps until our_main() is over.
\* Nothing is assumed about what the remote answers.
SpecFair == InitAll /\ [][NextAll]_vars /\ WF_vars(NextAll)

\* ------------------------------------------------------------------------
\* Properties of one run (SpecAll for the fetches, Spec for the relation
\* loops).

InFetch == pc \in {"poll", "sleep", "query"}

\* The policy of the relation excludes the task kind.
PolicyExcludes(a) ==
    \/ a[1] \in {"ref_housenumbers", "missing_housenumbers"}
         /\ should_check_missing_streets(a[2]) = "only"
    \/ a[1] \in {"ref_streets", "missing_streets", "additional_streets"}
         /\ should_check_missing_streets(a[2]) = "no"

\* The reference path the task kind needs is not configured.
ConfigMissing(a) ==
    \/ a[1] = "ref_streets" /\ ~config.reference_street
    \/ a[1] = "ref_housenumbers" /\ ~config.reference_housenumbers
    \/ a[1] = "ref_count" /\ ~config.reference_citycounts

\* C1: a fetch (osm-streets, osm-housenumbers, the stats extract) all of
\* whose attempts fail (http error or nothing persisted) is abandoned after
\* exactly 20 queries: a failed attempt ends the fetch if and only if it was
\* the 20th query of that fetch; the abandoned fetch is followed by the next
\* relation of the loop, or by the aggregation in update_stats(), with
\* our_main() still running; and every fetch starts with its first attempt
\* and no query made.
C1_RetryCeiling ==
    /\ [](pc = "abandoned" => queries = 20 /\ retry = 20 /\ result = "running")
    /\ [][(pc = "query" /\ pc' \in {"poll", "abandoned"})
            => (queries' = queries + 1 /\ (pc' = "abandoned" <=> queries' = 20))]_vars
    /\ [][pc = "abandoned"
            => /\ result' = "running"
               /\ \/ task = 0 /\ pc' = "aggregate"
                  \/ task > 0 /\ pc' = "loop" /\ queue' = Tail(queue)]_vars
    /\ [][(pc \in {"loop", "stats"} /\ pc' = "poll") => (retry' = 1 /\ queries' = 0)]_vars

\* C1 witness: the osm-housenumbers fetch of a relation is abandoned after
\* the fetch of the stats extract and the osm-streets fetch of the same
\* relation had failed all their attempts.
C1_Witness ==
    /\ pc = "abandoned"
    /\ Current[1] = "osm_housenumbers"
    /\ <<"osm_streets", Current[2]>> \in executed
    /\ ~Exists(files, <<"osm_streets", Current[2]>>)
    /\ StatsExtract \in executed
    /\ ~Exists(files, StatsExtract)

\* C2: in every fetch a query is only sent while the latest cooldown report
\* is zero; after every sleep the cooldown is polled again; and every attempt
\* begins with a poll of its own, the report of the previous attempt being
\* discarded.
C2_QueryGatedByPoll ==
    /\ [](pc = "query" => sleep = 0)
    /\ [][(queries' # queries /\ queries' # 0) => (pc = "query" /\ sleep = 0)]_vars
    /\ [][pc = "sleep" => (pc' = "poll")]_vars
    /\ [][(retry' = retry + 1) => (pc' = "poll" /\ sleep' = -1)]_vars

\* C2 witness: in a later attempt of the stats fetch a query is about to be
\* sent after a sleep and a fresh poll.
C2_Witness == pc = "query" /\ task = 0 /\ waits >= 1 /\ sleep = 0 /\ retry > 1

\* C3: in every fetch polls and sleeps leave the attempt counter alone, so a
\* fetch that succeeds has used as many attempts as it sent queries, at most
\* 20, however many nonzero cooldown reports came before.
C3_SleepsConsumeNoAttempt ==
    /\ [](pc = "fetched" => retry = queries /\ retry <= 20)
    /\ [](InFetch => retry = queries + 1)
    /\ [][(pc \in {"poll", "sleep"}) => (retry' = retry)]_vars

\* C3 witness: an osm-housenumbers fetch succeeds on its first attempt after
\* the remote made the executor sleep.
C3_Witness ==
    /\ pc = "fetched"
    /\ Current[1] = "osm_housenumbers"
    /\ waits = MaxWaits
    /\ retry = 1

\* C5: when our_main() is over, every task kind has been processed for every
\* active relation, whatever failed on the way.
C5_FailureIsolated ==
    pc = "done" =>
        \A r \in Relations : active[r] => \A kind \in TaskKinds : <<kind, r>> \in visited

\* C6: in incremental mode an artifact that existed when the run started is
\* neither fetched (no poll, no query) nor read / derived again, and keeps its
\* content and modification time.
C6_ExistingIsSkipped ==
    ~update =>
        \A a \in Artifacts :
            Exists(start, a) => /\ a \notin executed
                                /\ a \notin contacted
                                /\ files[a] = start[a]

\* C6 witness: an incremental run that skipped an existing artifact of one
\* relation and worked on a missing one of another.
C6_Witness ==
    /\ ~update
    /\ \E a \in visited, b \in executed : Exists(start, a) /\ a[2] # b[2]

\* C8 as stated: once all seven functions have returned in a forced refresh,
\* the step of every task kind has run for every active relation.
C8_Original ==
    (update /\ pc = "epilogue") =>
        \A r \in Relations : active[r] => \A kind \in TaskKinds : <<kind, r>> \in executed

\* C8 amended: in a forced refresh every iteration the run reaches invokes
\* its step, unless the policy of the relation excludes the task kind or the
\* reference path it needs is not configured; an existing artifact never
\* makes it skip.
C8_ForcedRefresh ==
    update => \A a \in visited : a \in executed \/ PolicyExcludes(a) \/ ConfigMissing(a)

\* C8 witness: a forced refresh has re-run the step of an existing artifact.
C8_Witness == update /\ \E a \in executed : Exists(start, a) /\ a[1] = "additional_streets"

\* C9: for policy `only` the ref-housenumbers and missing-housenumbers steps
\* never run and their artifacts stay as they were; for policy `no` the same
\* holds of ref-streets, missing-streets and additional-streets.
C9_PolicyGating ==
    \A a \in Artifacts :
        PolicyExcludes(a) => (a \notin executed /\ files[a] = start[a])

\* C9 witness: a forced refresh went through the ref-housenumbers iteration
\* of the `only` relation or the additional-streets iteration of the `no` one
\* while their artifacts were missing.
C9_Witness ==
    /\ update
    /\ \E a \in visited : PolicyExcludes(a) /\ ~Exists(start, a)
                          /\ a[1] \in {"ref_housenumbers", "additional_streets"}

\* The run has written the artifact: it holds content, and it is not the
\* file the run found.
Produced(a) == files[a].content = "data" /\ files[a] # start[a]

\* C10 as stated: policy `only` never gets ref-streets or missing-streets
\* produced, policy `no` never gets ref-housenumbers or missing-housenumbers.
C10_Original ==
    \A r \in Relations :
        /\ should_check_missing_streets(r) = "only"
             => ~Produced(<<"ref_streets", r>>) /\ ~Produced(<<"missing_streets", r>>)
        /\ should_check_missing_streets(r) = "no"
             => ~Produced(<<"ref_housenumbers", r>>) /\ ~Produced(<<"missing_housenumbers", r>>)

\* C10 amended: policy `only` never gets ref-housenumbers or
\* missing-housenumbers produced, policy `no` never gets ref-streets or
\* missing-streets.
C10_Amended ==
    \A r \in Relations :
        /\ should_check_missing_streets(r) = "only"
             => ~Produced(<<"ref_housenumbers", r>>) /\ ~Produced(<<"missing_housenumbers", r>>)
        /\ should_check_missing_streets(r) = "no"
             => ~Produced(<<"ref_streets", r>>) /\ ~Produced(<<"missing_streets", r>>)

\* C10 witness: the run is over for the `no` relation, which got its
\* housenumber artifacts and no street artifact.
C10_Witness ==
    /\ pc = "epilogue"
    /\ Produced(<<"ref_housenumbers", "gellerthegy">>)
    /\ Produced(<<"missing_housenumbers", "gellerthegy">>)
    /\ ~Exists(files, <<"ref_streets", "gellerthegy">>)

\* ------------------------------------------------------------------------
\* Termination of a fetch (SpecFair).

FetchOver == pc \in {"fetched", "abandoned", "done"}

\* C4 as stated: a fetch that has started ends, whatever the remote reports.
C4_Original == InFetch ~> FetchOver

\* C4 amended: a fetch never makes more than 20 attempts, and it ends, in
\* success, abandonment or a propagated error, unless the remote reports a
\* nonzero cooldown for ever, in which case overpass_sleep() never returns.
C4_Amended ==
    /\ [](retry <= 20 /\ queries <= 20)
    /\ (<>[](pc \in {"poll", "sleep"}) \/ (InFetch ~> FetchOver))

\* C4 witness: a fetch ends by exhaustion after the remote made it sleep.
C4_Witness == pc = "abandoned" /\ retry = 20 /\ waits >= 1

\* ------------------------------------------------------------------------
\* Consecutive incremental runs (SpecRerun).

\* C7 as stated: after two incremental runs that both returned Ok, the
\* artifact tree is what the first run left.
C7_Original ==
    (run = 2 /\ pc = "done" /\ result = "ok" /\ outcomes = <<"ok">>
        /\ ~updates[1] /\ ~updates[2])
    => files = start

\* C7 amended: in an incremental run that follows an incremental run, every
\* artifact that existed when it started keeps its content and modification
\* time; artifacts the earlier run left missing may be created.
C7_Amended ==
    (run >= 2 /\ ~updates[run - 1] /\ ~updates[run])
    => \A a \in Artifacts : Exists(start, a) => files[a] = start[a]

\* C7 witness: the second run is over; an artifact written by the first run
\* is still there, and the second run has created one the first had not.
C7_Witness ==
    /\ run = 2
    /\ pc = "done"
    /\ \E a \in Artifacts : start[a].mtime = 1 /\ files[a] = start[a]
    /\ \E b \in Artifacts : ~Exists(start, b) /\ files[b].content = "data"

\* ------------------------------------------------------------------------
\* Sources of the derivations (Spec).

\* The source pair of a derived artifact: the OSM list and the reference
\* list it is computed from.
Sources(a) ==
    IF a[1] = "missing_housenumbers"
      THEN {<<"osm_housenumbers", a[2]>>, <<"ref_housenumbers", a[2]>>}
      ELSE {<<"osm_streets", a[2]>>, <<"ref_streets", a[2]>>}

\* The artifact is there with content, written in this run or, in
\* incremental mode, found as it is when the run started.
Fresh(a) ==
    /\ files[a].content = "data"
    /\ \/ files[a].mtime = run
       \/ ~update /\ files[a] = start[a]

\* C18: whenever a derivation has run for a relation, both of its source
\* tasks have been processed for that relation before and both source
\* artifacts are fresh.
C18_SourcesFresh ==
    \A a \in executed :
        a[1] \in {"missing_streets", "missing_housenumbers", "additional_streets"} =>
            \A src \in Sources(a) : src \in visited /\ Fresh(src)

\* ------------------------------------------------------------------------
\* Phases and modes (SpecAll).

\* The relations phase has been entered: update_osm_streets() was called.
RelationsPhaseEntered == task >= 1

\* C11: in mode `all`, when our_main() is over the relations phase has run,
\* whatever error the stats phase raised.
C11_PhasesIndependent ==
    (mode = "all" /\ pc = "done") => RelationsPhaseEntered

\* The order in which the spec lists the tasks of a relation.
ListedOrder ==
    <<"osm_streets", "osm_housenumbers", "ref_streets", "ref_housenumbers",
      "missing_streets", "missing_housenumbers", "additional_streets">>

Position(seq, x) == CHOOSE i \in 1..Len(seq) : seq[i] = x

\* Relation q comes before relation r in the registry.
EarlierRelation(q, r) == Position(Registry, q) < Position(Registry, r)

\* Task kind j is listed before task kind k.
EarlierKind(j, k) == Position(ListedOrder, j) < Position(ListedOrder, k)

\* C16 as stated (relation-major): when a task of a relation starts, every
\* task of every active relation that comes earlier in the registry has been
\* started before.
C16_Original ==
    [][\A a \in Artifacts : (a \in visited' /\ a \notin visited) =>
          \A q \in Relations : (active[q] /\ EarlierRelation(q, a[2])) =>
              \A kind \in TaskKinds : <<kind, q>> \in visited]_vars

\* C16 amended (task-major): when a task of a relation starts, the same task
\* has been started for every active relation earlier in the registry and
\* for none later, and every earlier-listed task has been started for every
\* active relation and no later-listed task for any.
C16_Amended ==
    [][\A a \in Artifacts : (a \in visited' /\ a \notin visited) =>
          \A b \in Artifacts : active[b[2]] =>
              (b \in visited <=> \/ EarlierKind(b[1], a[1])
                                 \/ b[1] = a[1] /\ EarlierRelation(b[2], a[2]))]_vars

\* C16 witness: with two active relations all seven functions have returned.
C16_Witness ==
    /\ pc = "epilogue"
    /\ \E q, r \in Relations :
         /\ q # r
         /\ \A kind \in TaskKinds : <<kind, q>> \in visited /\ <<kind, r>> \in visited

\* C17: in mode `all` a relation task starts only when update_stats() has
\* returned (the extract was dealt with and stats.json written), and from
\* then on no file of the stats directory changes; and in every mode, when a
\* task of a relation starts, the earlier-listed tasks of that relation have
\* been started and none of the later-listed ones.
C17_StatsThenListedOrder ==
    /\ []((mode = "all" /\ RelationsPhaseEntered) =>
            /\ StatsExtract \in visited
            /\ files[<<"stats_json", "stats">>] = [content |-> "data", mtime |-> run])
    /\ [][RelationsPhaseEntered => \A f \in StatsFiles : files'[f] = files[f]]_vars
    /\ [][\A a \in Artifacts : (a \in visited' /\ a \notin visited) =>
            \A kind \in TaskKinds :
                kind # a[1] => (<<kind, a[2]>> \in visited <=> EarlierKind(kind, a[1]))]_vars

\* C17 witness: in mode `all` the stats phase fetched the extract and the
\* relations phase has run to its end.
C17_Witness ==
    /\ mode = "all"
    /\ pc = "epilogue"
    /\ StatsExtract \in executed
    /\ \E a \in executed : a[1] = "additional_streets"

\* C14: when update_stats_count() returns Ok on an extract whose first line
\* starts with the XML marker, it has neither created nor rewritten today's
\* .count and .citycount, and the aggregates of the prior day are as they
\* were.
C14_ExtractRejected ==
    [][(pc = "aggregate" /\ pc' = "topusers" /\ files[StatsExtract].content = "xml")
        => \A output \in {"count", "citycount"} :
              /\ files'[<<output, "today">>] = files[<<output, "today">>]
              /\ files'[<<output, "prior">>] = files[<<output, "prior">>]]_vars

\* C19: in mode `stats` no relation task is started and no relation artifact
\* changes; in mode `relations` update_stats() is not entered and no file of
\* the stats directory changes; in mode `all` both phases have run when
\* our_main() is over.
C19_ModeSwitch ==
    /\ mode = "stats" =>
         /\ visited \cap Artifacts = {}
         /\ \A a \in Artifacts : files[a] = start[a]
    /\ mode = "relations" =>
         /\ StatsExtract \notin visited
         /\ \A f \in StatsFiles : files[f] = start[f]
    /\ (mode = "all" /\ pc = "done") =>
         /\ StatsExtract \in visited
         /\ \E a \in Artifacts : a \in visited

\* ------------------------------------------------------------------------
\* main() (SpecMain).

\* C12: main() reports failure when our_main() returned an error (a phase
\* failed, or the injected fault at the end), and success when it returned
\* Ok.
C12_OutcomeReported ==
    pc = "exit" =>
        /\ result = "err" => returned = "err"
        /\ result = "ok" => returned = "ok"

GotTask(r) == \E kind \in TaskKinds : <<kind, r>> \in visited

\* C15: once main() has applied the override, and for the rest of the run,
\* on the first day of a month exactly the relations in scope are active,
\* whatever their configured flag, and each of them has been through all
\* seven tasks when the relations phase ends; on another day without
\* cron_update_inactive only relations configured active are, and no other
\* relation gets a task; the override is applied once; and the configured
\* flag of no relation ever changes.
C15_MonthlyReactivation ==
    /\ [](pc \notin {"main", "exit"} =>
            /\ first_day_of_month => \A r \in Relations : active[r] <=> r \in scope
            /\ (~first_day_of_month /\ ~cron_update_inactive) =>
                  \A r \in Relations : active[r] <=> (r \in scope /\ configured[r]))
    /\ []((first_day_of_month /\ pc = "epilogue" /\ mode # "stats") =>
            \A r \in scope : \A kind \in TaskKinds : <<kind, r>> \in visited)
    /\ []((~first_day_of_month /\ ~cron_update_inactive) =>
            \A r \in Relations : GotTask(r) => configured[r])
    /\ [][pc # "main" => active' = active]_vars
    /\ [][configured' = configured]_vars

\* C15 witness: on the first day of a month a relation that is configured
\* inactive has been through the relations phase.
C15_Witness ==
    /\ first_day_of_month
    /\ ~cron_update_inactive
    /\ pc = "exit"
    /\ \E r \in scope : /\ ~configured[r]
                          /\ \A kind \in TaskKinds : <<kind, r>> \in visited

\* ------------------------------------------------------------------------
\* Interruption and resumption (SpecResume).

\* C20: when a run was interrupted and an incremental run has then completed
\* with Ok, no artifact is a partially written file: each has the content a
\* run writes, or an outcome a run without interruption can leave.
C20_ResumeSafe ==
    (run = 2 /\ outcomes = <<"killed">> /\ ~update /\ pc = "done" /\ result = "ok")
    => \A a \in Artifacts : files[a].content # "partial"

\* ------------------------------------------------------------------------
\* The configuration (Spec).

\* The step is the failure of a look-up of a reference path that wsgi.ini
\* does not define.
ConfigErrorRaised ==
    /\ pc' = "done"
    /\ result' = "err"
    /\ \/ /\ pc = "loop"
          /\ queue # <<>>
          /\ ~SkipExisting(Current)
          /\ ConfigMissing(Current)
       \/ /\ pc = "refcount"
          /\ ConfigMissing(<<"ref_count", "stats">>)

\* C21: when the error of a missing reference path is raised, no fetch,
\* reference or derivation step has run, the remote has not been contacted
\* and no file has been written.
C21_ConfigFatalFirst ==
    [][ConfigErrorRaised => (executed = {} /\ contacted = {} /\ files = start)]_vars

\* ------------------------------------------------------------------------
\* The flags of main() (SpecFlags).

\* C22 as stated: with --no-update every iteration of the run invokes its
\* step, whether or not the artifact exists, unless the policy of the
\* relation excludes the task kind.
C22_Original ==
    "no-update" \in argv =>
        \A a \in visited \cap Artifacts : a \in executed \/ PolicyExcludes(a)

\* C22 amended: --no-update makes the run incremental: our_main() is called
\* with update = false, and an artifact that exists when the run starts is
\* neither fetched nor derived again and stays as it is; without the flag
\* update = true, and every iteration invokes its step whether or not the
\* artifact exists, unless the policy of the relation excludes the task
\* kind.
C22_Amended ==
    /\ pc \notin {"main", "exit"} => (update <=> "no-update" \notin argv)
    /\ ("no-update" \in argv /\ pc # "main") =>
          \A a \in Artifacts :
              Exists(start, a) => /\ a \notin executed
                                  /\ a \notin contacted
                                  /\ files[a] = start[a]
    /\ ("no-update" \notin argv /\ pc # "main") =>
          \A a \in visited \cap Artifacts : a \in executed \/ PolicyExcludes(a)

\* C22 witness: a run with --no-update has been through the relations phase
\* and skipped the fetch of an artifact that existed.
C22_Witness ==
    /\ "no-update" \in argv
    /\ pc = "exit"
    /\ \E a \in visited : a[1] = "osm_streets" /\ Exists(start, a) /\ a \notin executed
    /\ \E b \in visited : b[1] = "additional_streets"

\* Today's aggregates.
TodaysAggregates ==
    {<<"count", "today">>, <<"citycount", "today">>,
     <<"topusers", "today">>, <<"usercount", "today">>}

\* C23: with --no-overpass update_stats() is called with overpass = false;
\* the stats phase sends neither a cooldown poll nor a query for the
\* extract, today's extract stays as the run found it, and today's
\* aggregates are only written when the extract was there at the start.
C23_NoOverpass ==
    ("no-overpass" \in argv /\ pc # "main") =>
        /\ pc # "exit" => ~overpass
        /\ StatsExtract \notin executed
        /\ StatsExtract \notin contacted
        /\ InFetch => task # 0
        /\ files[StatsExtract] = start[StatsExtract]
        /\ \A f \in TodaysAggregates : files[f] # start[f] => Exists(start, StatsExtract)

\* C23 witness: a stats phase with --no-overpass has written today's
\* aggregates from the extract that was there, and is over.
C23_Witness ==
    /\ "no-overpass" \in argv
    /\ pc = "exit"
    /\ mode = "stats"
    /\ result = "ok"
    /\ files[<<"count", "today">>] = [content |-> "data", mtime |-> run]
    /\ files[<<"usercount", "today">>] = [content |-> "data", mtime |-> run]

\* ------------------------------------------------------------------------
\* Short writes (SpecAll).

\* C24: in every fetch (osm-streets, osm-housenumbers, the stats extract),
\* an attempt that leaves its target empty is followed by the next attempt
\* of the same fetch, or by the abandonment of the fetch when it was the
\* 20th, with our_main() still running.
C24_ShortWriteRetried ==
    [][(pc = "query" /\ files'[Current].content = "empty")
        => (pc' \in {"poll", "abandoned"} /\ result' = "running")]_vars

\* ------------------------------------------------------------------------
\* The aggregates of an extract (SpecAggregate).

\* update_stats_count() has returned; update_stats_topusers() has returned.
Counted == pc \in {"rank_users", "aggregated"}

Ranked == pc = "aggregated"

\* The extract is a header line followed by data lines.
WellFormed(lines) ==
    /\ lines # <<>>
    /\ lines[1] = Header
    /\ \A i \in 2..Len(lines) : lines[i] \in Rows

\* The data lines of a well-formed extract, as positions.
DataLines(lines) == 2..Len(lines)

\* The identity of the house number of a data line.
Identity(line) == <<line[1], line[2], line[3], line[4]>>

\* The identities that occur in an extract.
Identities(lines) == {Identity(lines[i]) : i \in DataLines(lines)}

\* C25: the number written to .count is the number of distinct (postcode,
\* city, street, housenumber) tuples of the data lines, the header left
\* out; every extract with the same tuples, whatever the editors, the
\* repetitions and the order of its lines, gets the same number.
C25_DistinctCount ==
    (Counted /\ WellFormed(csv)) =>
        /\ count_file = Cardinality(Identities(csv))
        /\ \A other \in Extracts :
              (WellFormed(other) /\ Identities(other) = Identities(csv)) =>
                  write_count_path(CountLoop(other, TRUE, {}, {}).house_numbers) = count_file

\* C25 witness: two lines that differ in the editor only and a repeated
\* line have been counted as one house number.
C25_Witness ==
    /\ Counted
    /\ count_file = 1
    /\ Len(csv) = 4
    /\ csv[2][5] # csv[3][5]
    /\ csv[4] = csv[2]

\* The city key of a data line.
KeyOf(line) == get_city_key(line[1], line[2])

\* C26: .citycount has exactly one line per city key of the data lines, the
\* number on it is the number of distinct (street, housenumber) pairs of
\* the lines with that key, and the lines are in ascending collation order
\* of the key.
C26_CityGrouping ==
    (Counted /\ WellFormed(csv)) =>
        LET keys == {KeyOf(csv[i]) : i \in DataLines(csv)} IN
        /\ Len(citycount_file) = Cardinality(keys)
        /\ {citycount_file[i][1] : i \in 1..Len(citycount_file)} = keys
        /\ \A i \in 1..Len(citycount_file) :
              citycount_file[i][2] =
                  Cardinality({<<csv[k][3], csv[k][4]>> :
                                 k \in {d \in DataLines(csv) : KeyOf(csv[d]) = citycount_file[i][1]}})
        /\ \A i, j \in 1..Len(citycount_file) :
              i < j => get_sort_key(citycount_file[i][1]) < get_sort_key(citycount_file[j][1])

\* C26 witness: two spellings of one city with the same street and
\* housenumber, read after a city that sorts behind them, make one line
\* with the number 1 that comes first.
C26_Witness ==
    /\ Counted
    /\ citycount_file = <<<<"budapest", 1>>, <<"Zirc", 1>>>>
    /\ Len(csv) = 4
    /\ csv[2][2] = "Zirc"
    /\ csv[3][2] # csv[4][2]

\* The editors of the data lines.
Editors(lines) == {lines[i][5] : i \in DataLines(lines)}

\* The number of data lines whose last cell is the editor.
LinesBy(lines, editor) == Cardinality({i \in DataLines(lines) : lines[i][5] = editor})

\* C27: .topusers lists editors of data lines only, each once and with the
\* number of data lines that end in that editor, in non-increasing order of
\* that number; it has min(20, number of distinct editors) lines, and no
\* editor left out has more lines than a listed one.
C27_TopEditors ==
    (Ranked /\ WellFormed(csv)) =>
        LET listed == {topusers_file[i][2] : i \in 1..Len(topusers_file)}
            editors == Cardinality(Editors(csv))
        IN
        /\ listed \subseteq Editors(csv)
        /\ Len(topusers_file) = Cardinality(listed)
        /\ Len(topusers_file) = IF editors < 20 THEN editors ELSE 20
        /\ \A i \in 1..Len(topusers_file) :
              topusers_file[i][1] = LinesBy(csv, topusers_file[i][2])
        /\ \A i, j \in 1..Len(topusers_file) :
              i < j => topusers_file[i][1] >= topusers_file[j][1]
        /\ \A out \in Editors(csv) \ listed : \A in \in listed :
              LinesBy(csv, out) <= LinesBy(csv, in)

\* C28: the number written to .usercount is the number of distinct editors
\* of the data lines, the header left out.
C28_UserCount ==
    (Ranked /\ WellFormed(csv)) =>
        usercount_file = Cardinality(Editors(csv))

\* ------------------------------------------------------------------------
\* The stats phase (SpecStats).

\* update_stats() has returned, with Ok or with an error.
StatsPhaseOver == pc \in {"epilogue", "done"}

\* C29: when the stats phase is over, every extract older than 7 x 24 h is
\* gone and every younger one is as it was, whether the fetch of today's
\* extract succeeded, was abandoned or was disabled; and an extract is only
\* ever removed by the retention step, which comes after the aggregation.
C29_Retention ==
    /\ [](StatsPhaseOver =>
            \A f \in AgedExtracts :
                /\ last_modified(f) > 7 * 24 * 3600 => ~Exists(files, f)
                /\ last_modified(f) < 7 * 24 * 3600 => files[f] = start[f])
    /\ [][(\E f \in AgedExtracts : files'[f] # files[f]) => pc = "prune"]_vars

\* C30: when the stats phase is over, ref.count has been written in this
\* run, whether or not it existed before and whether or not there is an
\* extract for today.
C30_ReferenceTotal ==
    StatsPhaseOver => files[<<"ref_count", "stats">>] = [content |-> "data", mtime |-> run]

\* ------------------------------------------------------------------------
\* C31: once today's extract exists, no step changes its content; the only
\* later change to it is its removal.
C31_ExtractImmutable ==
    [][Exists(files, StatsExtract)
         => files'[StatsExtract].content \in {files[StatsExtract].content, "absent"}]_vars

\* ------------------------------------------------------------------------
\* The cooldowns reported to overpass_sleep() before the first zero.
RECURSIVE BeforeFirstZero(_)
BeforeFirstZero(seq) ==
    IF seq = <<>> \/ Head(seq) = 0
      THEN <<>>
      ELSE <<Head(seq)>> \o BeforeFirstZero(Tail(seq))

\* C32: overpass_sleep() sleeps once per nonzero cooldown reported, for that
\* many seconds, and returns at the first zero: at any moment the sleeps made
\* are the nonzero reports received, in order; when it has returned the
\* last report is the only zero, and the time slept is the sum of the
\* reports before it, which is 0 if the first report was zero.
C32_SleepTime ==
    /\ sleeps = BeforeFirstZero(reports)
    /\ pc = "overpass_sleep" => \A i \in 1..Len(reports) : reports[i] # 0
    /\ pc = "awake" =>
         /\ reports # <<>>
         /\ reports[Len(reports)] = 0
         /\ \A i \in 1..(Len(reports) - 1) : reports[i] # 0
         /\ Len(sleeps) = Len(reports) - 1
         /\ Sum(sleeps) = Sum(BeforeFirstZero(reports))
         /\ reports[1] = 0 => Sum(sleeps) = 0

\* overpass_sleep() has returned after three sleeps of different lengths.
C32_Witness ==
    /\ pc = "awake"
    /\ reports = <<2, 3, 1, 0>>
    /\ Sum(sleeps) = 6

\* ------------------------------------------------------------------------
\* The position of a step of update_stats() in the order of its source.
StepRank(p) ==
    CASE p = "stats" -> 0
      [] p \in {"poll", "sleep", "query", "fetched", "abandoned"} -> 1
      [] p = "aggregate" -> 2
      [] p = "topusers" -> 3
      [] p = "refcount" -> 4
      [] p = "prune" -> 5
      [] p = "json" -> 6
      [] OTHER -> 7

\* The step of update_stats() that creates, rewrites or removes the file.
StepOf(f) ==
    CASE f = StatsExtract -> 1
      [] f[1] \in {"count", "citycount"} /\ f[2] = "today" -> 2
      [] f[1] \in {"topusers", "usercount"} /\ f[2] = "today" -> 3
      [] f = <<"ref_count", "stats">> -> 4
      [] f \in AgedExtracts -> 5
      [] f = <<"stats_json", "stats">> -> 6
      [] OTHER -> 8

\* C33: within a stats phase the steps come in the order fetch, count and
\* city count, top editors, reference total, retention, rollup: the phase
\* never goes back to an earlier step, a file changes only in the step that
\* owns it, and when the rollup starts no extract that retention removes is
\* left, so the rollup reads the directory as pruned in the same run.
C33_StepOrder ==
    /\ [](pc = "json" => \A f \in StatsFiles : ~Expired(files, f))
    /\ [][/\ StepRank(pc') >= StepRank(pc)
          /\ \A f \in StatsFiles :
                files'[f] # files[f] => StepRank(pc) = StepOf(f)]_vars

\* The rollup is about to start in a run that fetched the extract, wrote
\* every aggregate and pruned an old extract.
C33_Witness ==
    /\ pc = "json"
    /\ files[StatsExtract] # start[StatsExtract]
    /\ \A f \in {<<"count", "today">>, <<"citycount", "today">>, <<"topusers", "today">>,
                 <<"usercount", "today">>, <<"ref_count", "stats">>} :
          files[f] # start[f] /\ Exists(files, f)
    /\ Exists(start, <<"stats_csv", "aged_8d">>)
    /\ ~Exists(files, <<"stats_csv", "aged_8d">>)
    /\ Exists(files, <<"stats_csv", "aged_6d">>)

\* ------------------------------------------------------------------------
\* C34: a fetch that is abandoned after its 20 attempts leaves its target as
\* it was when the run started: same existence, same content.
C34_AbandonedUntouched ==
    pc = "abandoned" => files[Current] = start[Current]

\* ------------------------------------------------------------------------
\* C35: a fetch stops at its first success: a query whose answer was written
\* ends the attempts, nothing is polled, queried or written by the fetch
\* after that, and no fetch is started twice in a run; so a fetch that ends,
\* by success or by abandonment, has sent between 1 and 20 queries, and
\* none ever sends more than 20.
C35_StopAtFirstSuccess ==
    /\ [](queries <= 20)
    /\ [](pc \in {"fetched", "abandoned"} => queries \in 1..20)
    /\ [][(pc = "query" /\ files' # files /\ files'[Current].content = "data")
            => pc' = "fetched"]_vars
    /\ [][pc = "fetched"
            => (pc' \notin {"poll", "sleep", "query"} /\ files' = files
                /\ contacted' = contacted)]_vars
    /\ [][(pc \in {"loop", "stats"} /\ pc' = "poll") => Current' \notin executed]_vars

\* An osm-streets fetch succeeded at its third query, in a run whose stats
\* fetch had succeeded before.
C35_Witness ==
    /\ pc = "fetched"
    /\ task = 1
    /\ queries = 3
    /\ files[Current] = [content |-> "data", mtime |-> run]
    /\ StatsExtract \in executed
    /\ files[StatsExtract].content = "data"

\* ------------------------------------------------------------------------
\* Today's aggregates are as they were when the run started.
AggregatesUntouched == \A f \in TodaysAggregates : files[f] = start[f]

\* C36: when today's extract does not exist at aggregation time, the two
\* aggregation steps return without an error and without creating or
\* changing <today>.count, .citycount, .topusers or .usercount, and the
\* phase goes on to the reference total, from where retention and the
\* rollup follow as in any run; so as long as the extract is missing the
\* four files are as the run found them.
C36_NoExtractNoAggregates ==
    /\ [][(pc \in {"aggregate", "topusers"} /\ ~Exists(files, StatsExtract))
            => /\ files' = files
               /\ result' = "running"
               /\ pc' = (IF pc = "aggregate" THEN "topusers" ELSE "refcount")]_vars
    /\ []((StepRank(pc) >= 2 /\ ~Exists(files, StatsExtract)) => AggregatesUntouched)
    /\ [][(pc = "refcount" /\ config.reference_citycounts /\ pc' # "done")
            => (pc' = "prune" /\ Exists(files', <<"ref_count", "stats">>))]_vars

\* A stats phase without an extract ended without error after all 20
\* queries had failed: no aggregate of today exists, the reference total
\* and the rollup were written and the old extract was pruned.
C36_Witness ==
    /\ pc = "epilogue"
    /\ result = "running"
    /\ overpass
    /\ StatsExtract \in contacted
    /\ ~Exists(files, StatsExtract)
    /\ \A f \in TodaysAggregates : ~Exists(files, f)
    /\ files[<<"ref_count", "stats">>] = [content |-> "data", mtime |-> run]
    /\ files[<<"stats_json", "stats">>] = [content |-> "data", mtime |-> run]
    /\ Exists(start, <<"stats_csv", "aged_8d">>)
    /\ ~Exists(files, <<"stats_csv", "aged_8d">>)

\* ------------------------------------------------------------------------
\* The sum of the numbers on the lines of a .citycount file.
RECURSIVE CityTotal(_)
CityTotal(lines) == IF lines = <<>> THEN 0 ELSE Head(lines)[2] + CityTotal(Tail(lines))

\* C37: for every extract the numbers on the lines of .citycount add up to
\* at most the number in .count, and .citycount has no line exactly when
\* .count is 0.
C37_CityTotalBounded ==
    Counted =>
        /\ CityTotal(citycount_file) <= count_file
        /\ citycount_file = <<>> <=> count_file = 0

\* Two house numbers that differ in the spelling of the city only are one
\* (street, housenumber) pair of one city key: the sum is below the count.
C37_Witness ==
    /\ Counted
    /\ Len(csv) = 4
    /\ count_file = 3
    /\ citycount_file = <<<<"budapest", 1>>, <<"erd", 1>>>>
    /\ CityTotal(citycount_file) = 2

\* ------------------------------------------------------------------------
\* C38: a run deletes nothing but `.csv` extracts: every file that exists
\* before a step and not after it is an extract, and it is not the extract
\* the fetch of this run wrote.
C38_OnlyExtractsPruned ==
    [][\A f \in Files :
         (Exists(files, f) /\ ~Exists(files', f))
            => /\ extension(f) = "csv"
               /\ f \in AgedExtracts
               /\ files[f].mtime # run
               /\ pc = "prune"]_vars

\* Retention has removed the extract aged 8 days in a run that fetched
\* today's extract; the aggregates of the prior day, as old as the extract
\* that is gone, ref.count and today's extract and aggregates are there.
C38_Witness ==
    /\ pc = "json"
    /\ Exists(start, <<"stats_csv", "aged_8d">>)
    /\ ~Exists(files, <<"stats_csv", "aged_8d">>)
    /\ Exists(files, <<"count", "prior">>)
    /\ Exists(files, <<"ref_count", "stats">>)
    /\ files[StatsExtract] = [content |-> "data", mtime |-> run]
    /\ \A f \in TodaysAggregates : Exists(files, f)

\* ------------------------------------------------------------------------
\* What another aggregation of the same extract may write to .topusers.
Reaggregated == TopLines(UsersLoop(csv, <<>>))

\* The numbers of the lines of a .topusers file, in order.
CountsOf(lines) == [i \in 1..Len(lines) |-> lines[i][1]]

\* The lines of a .topusers file, without their order.
LinesOf(lines) == {lines[i] : i \in 1..Len(lines)}

\* C39 as stated: two aggregations of the same extract write the same
\* .topusers, line by line, the order of editors with equal counts included.
C39_Original ==
    Ranked => \A other \in Reaggregated : other = topusers_file

\* C39 amended: two aggregations of the same extract (with at most 20
\* distinct last cells) write the same lines to .topusers, with the same
\* numbers in the same places; only the order of lines with equal numbers
\* may differ.
C39_Amended ==
    Ranked =>
        \A other \in Reaggregated :
            /\ Len(other) = Len(topusers_file)
            /\ CountsOf(other) = CountsOf(topusers_file)
            /\ LinesOf(other) = LinesOf(topusers_file)
            /\ \A i \in 1..Len(other) :
                  other[i] # topusers_file[i]
                     => \E j \in 1..Len(other) : j # i /\ other[j][1] = other[i][1]

\* An extract in which one editor leads and two others tie has been ranked,
\* and another aggregation could have written the tied lines the other way
\* round.
C39_Witness ==
    /\ Ranked
    /\ Len(topusers_file) >= 3
    /\ topusers_file[1][1] > topusers_file[2][1]
    /\ topusers_file[2][1] = topusers_file[3][1]
    /\ \E other \in Reaggregated :
          /\ other # topusers_file
          /\ other[1] = topusers_file[1]
          /\ other[2] = topusers_file[3]

\* ------------------------------------------------------------------------
\* The number a field of the duration line reads as.
RECURSIVE Number(_)
Number(digits) ==
    IF digits = <<>> THEN 0
    ELSE 10 * Number(SubSeq(digits, 1, Len(digits) - 1)) + digits[Len(digits)]

Value(text) == IF text.minus THEN -Number(text.digits) ELSE Number(text.digits)

\* C40: the duration line decomposes the elapsed seconds d = end - start
\* exactly: for every d >= 0 the hours, minutes and seconds printed satisfy
\* hours * 3600 + minutes * 60 + seconds = d with minutes and seconds in
\* 0..59; the hours are not wrapped at 24.
C40_DurationDecomposed ==
    (pc = "exit" /\ emitted = 1 /\ now - started >= 0) =>
        LET hours == Value(finished_in[1])
            minutes == Value(finished_in[2])
            seconds == Value(finished_in[3])
        IN /\ hours * 3600 + minutes * 60 + seconds = now - started
           /\ minutes \in 0..59
           /\ seconds \in 0..59
           /\ hours >= 0
           /\ Len(finished_in[2].digits) = 2
           /\ Len(finished_in[3].digits) = 2

\* The line of a run of 25 hours, 1 minute and 1 second: "25:01:01".
C40_Witness ==
    /\ pc = "exit"
    /\ now - started = 90061
    /\ finished_in = <<[minus |-> FALSE, digits |-> <<2, 5>>],
                       [minus |-> FALSE, digits |-> <<0, 1>>],
                       [minus |-> FALSE, digits |-> <<0, 1>>]>>

====
